---- MODULE Spec2Model ----
(***************************************************************************)
(* Signal-to-order pipeline of the webhook trading relay: main.py          *)
(* (SignalProcessor, the Flask handlers, the SQLite tables) and utils.py   *)
(* (SignalValidator, RiskManager), with the risk limits of config.py.      *)
(*                                                                         *)
(* Every webhook request runs in its own handler thread; the steps of a    *)
(* request that touch shared state (a committed SQLite statement, the read *)
(* of SignalProcessor.paper_trading) are separate actions, so requests and *)
(* mode toggles interleave between them.                                   *)
(***************************************************************************)
EXTENDS Integers, Sequences, FiniteSets, TLC

\* Bounds of the model.
MaxEvents == 2          \* webhook requests received in one behaviour
MaxStrategies == 2      \* rows of the strategies table
MaxLedger == 3          \* rows of a trades table given to the daily-loss check
MaxDay == 2             \* the last date the clock reaches
MaxConfigs == 3         \* requests to /api/broker_config in one behaviour

\* Config.RISK_MANAGEMENT (config.py)
max_daily_loss == 10000
max_position_size == 50000
allowed_symbols == {}
blocked_symbols == {}

\* ------------------------------------------------------------------ values
\* Python None, as the value dict.get() returns for an absent key.
NONE == "None"

\* A JSON price: a number, an absent key, or a text float() cannot parse.
Num(n) == [k |-> "num", v |-> n]
NoPrice == [k |-> "none", v |-> 0]
TextPrice == [k |-> "text", v |-> 0]

IsNum(price) == price.k = "num"

Abs(n) == IF n < 0 THEN -n ELSE n

\* int(a / b) for b # 0: Python's int() truncates the quotient toward zero.
TruncDiv(a, b) ==
    IF (a >= 0) = (b > 0) THEN Abs(a) \div Abs(b) ELSE -(Abs(a) \div Abs(b))

\* ------------------------------------------------------------------ inputs
\* Request bodies of /api/create_strategy.
StrategyInputs ==
    { [symbol |-> "INFY", signal_source |-> "chartink",
       position_size_type |-> "quantity", position_size |-> 100],
      [symbol |-> "INFY", signal_source |-> "chartink",
       position_size_type |-> "amount", position_size |-> 100] }

Payload(sym, st, act, pr, ts) ==
    [symbol |-> sym, signal_type |-> st, action |-> act, price |-> pr,
     timestamp |-> ts]

\* Request bodies posted to /api/webhook/chartink.
ChartinkPayloads ==
    { Payload("INFY", "BUY", NONE, Num(100), "t"),
      Payload("INFY", "SELL", NONE, Num(600), "t"),
      Payload("INFY", "BUY", NONE, Num(0), "t"),
      Payload("INFY", "HOLD", NONE, Num(100), "t"),
      Payload("INFY", "BUY", NONE, NoPrice, "t"),
      Payload("INFY", "BUY", NONE, TextPrice, "t"),
      Payload("INFY", NONE, NONE, Num(100), "t") }

\* Request bodies posted to /api/webhook/tradingview.
TradingviewPayloads ==
    { Payload("INFY", NONE, "BUY", Num(100), NONE) }

\* Request bodies of /api/toggle_trading_mode: the value of their 'mode'.
Modes == {"paper", "live", "Paper", NONE}

\* ------------------------------------------------------------------- state
VARIABLES
    strategies,     \* table strategies, in id order
    signals,        \* table signals, in id order
    trades,         \* table trades, in id order
    paper_trading,  \* SignalProcessor.paper_trading
    req,            \* webhook requests, in arrival order: the handler's locals
    exec,           \* history, one entry per signal row: how it was executed
    broker_configs, \* table broker_configs, in id order
    today,          \* the current date, as a day number
    last_mode,      \* history: 'mode' of the latest toggle request
    daily_loss_ok   \* the latest result of check_daily_loss_limit

vars == <<strategies, signals, trades, paper_trading, req, exec,
          broker_configs, today, last_mode, daily_loss_ok>>

\* ------------------------------------------------------- utils.py: validator
\* re.match(r'^[A-Z0-9_-]+$', symbol), over the symbols the inputs use.
SymbolPatternMatches(symbol) == symbol \in {"INFY", "TCS"}

\* float(price) raises ValueError or TypeError
FloatRaises(price) == ~IsNum(price)

validate_chartink_signal(data) ==
    /\ data.symbol # NONE
    /\ data.signal_type # NONE
    /\ data.price.k # "none"
    /\ data.timestamp # NONE
    /\ data.signal_type \in {"BUY", "SELL"}
    /\ ~FloatRaises(data.price)
    /\ SymbolPatternMatches(data.symbol)

validate_tradingview_signal(data) ==
    /\ data.symbol # NONE
    /\ data.action # NONE
    /\ data.price.k # "none"
    /\ data.action \in {"BUY", "SELL", "buy", "sell"}
    /\ ~FloatRaises(data.price)

SignalValid(source, data) ==
    IF source = "chartink" THEN validate_chartink_signal(data)
    ELSE validate_tradingview_signal(data)

\* ---------------------------------------------------- utils.py: RiskManager
validate_position_size(symbol, quantity, price) ==
    ~(quantity * price > max_position_size)

RECURSIVE SumPnl(_)
SumPnl(rows) ==
    IF rows = <<>> THEN 0
    ELSE LET t == Head(rows)
         IN (t.price.v * t.quantity) * (IF t.side = "SELL" THEN 1 ELSE -1)
            + SumPnl(Tail(rows))

\* The rows the query of check_daily_loss_limit sums over; a row's timestamp
\* and datetime.now() are both kept as day numbers.
LiveFilled(rows) ==
    SelectSeq(rows, LAMBDA t : /\ t.timestamp = today
                               /\ t.trading_mode = "live"
                               /\ t.status = "filled")

\* As check_daily_loss_limit, with a loss equal to the limit still passing.
check_daily_loss_limit_below(rows) ==
    SumPnl(LiveFilled(rows)) >= -max_daily_loss

\* SUM() over no rows is NULL, and `result[0] if result[0] else 0` is 0.
check_daily_loss_limit(rows) ==
    SumPnl(LiveFilled(rows)) > -max_daily_loss

check_symbol_allowed(symbol) ==
    /\ ~(blocked_symbols # {} /\ symbol \in blocked_symbols)
    /\ ~(allowed_symbols # {} /\ symbol \notin allowed_symbols)

\* ------------------------------------------------ main.py: SignalProcessor
_get_matching_strategies(symbol, signal_source) ==
    SelectSeq(strategies,
              LAMBDA s : /\ s.symbol = symbol
                         /\ s.signal_source = signal_source
                         /\ s.is_active)

\* strategy[7] / price raises TypeError (None, text) or ZeroDivisionError.
SizingRaises(strategy, price) ==
    /\ strategy.position_size_type # "quantity"
    /\ (~IsNum(price) \/ price.v = 0)

\* As ComputeQuantity, with the quotient rounded up.
ComputeQuantityRoundedUp(strategy, price) ==
    IF strategy.position_size_type = "quantity"
    THEN strategy.position_size
    ELSE -TruncDiv(-strategy.position_size - price.v + 1, price.v)

ComputeQuantity(strategy, price) ==
    IF strategy.position_size_type = "quantity"
    THEN strategy.position_size
    ELSE TruncDiv(strategy.position_size, price.v)

\* signals.signal_type is NOT NULL: inserting None raises IntegrityError.
InsertRaises(signal_type) == signal_type = NONE

\* As SignalRow, with the row inserted as already filled.
SignalRowFilled(id, strategy, signal_type, price, quantity) ==
    [id |-> id, strategy_id |-> strategy.id, signal_type |-> signal_type,
     symbol |-> strategy.symbol, price |-> price, quantity |-> quantity,
     status |-> "filled"]

\* The INSERT names no status: the column default 'pending' applies.
SignalRow(id, strategy, signal_type, price, quantity) ==
    [id |-> id, strategy_id |-> strategy.id, signal_type |-> signal_type,
     symbol |-> strategy.symbol, price |-> price, quantity |-> quantity,
     status |-> "pending"]

\* As PaperTradeRow, with the row left in the status of an order not yet filled.
PaperTradeRowPending(id, signal_id, strategy, signal_type, quantity, price) ==
    [id |-> id, signal_id |-> signal_id, broker |-> "paper", order_id |-> NONE,
     symbol |-> strategy.symbol, side |-> signal_type, quantity |-> quantity,
     price |-> price, status |-> "pending", trading_mode |-> "paper",
     timestamp |-> today]

PaperTradeRow(id, signal_id, strategy, signal_type, quantity, price) ==
    [id |-> id, signal_id |-> signal_id, broker |-> "paper", order_id |-> NONE,
     symbol |-> strategy.symbol, side |-> signal_type, quantity |-> quantity,
     price |-> price, status |-> "filled", trading_mode |-> "paper",
     timestamp |-> today]

\* As LastRowId, read from a cursor on the trades table.
LastRowIdOfTrades(rows) == Len(trades)

\* cursor.lastrowid after the INSERT into signals
LastRowId(rows) == Len(rows)

\* As ReadPaperTrading, with the start-up default in place of the flag.
ReadDefaultMode == TRUE

\* `if self.paper_trading:` in _execute_strategy
ReadPaperTrading == paper_trading

\* _execute_strategy returns (its locals die) and the loop
\* `for strategy in strategies` moves on, or the handler returns.
Advance(r) ==
    IF r.idx < Len(r.strategies)
    THEN [r EXCEPT !.idx = @ + 1, !.pc = "exec", !.signal_id = 0, !.quantity = 0]
    ELSE [r EXCEPT !.pc = "done", !.signal_id = 0, !.quantity = 0]

\* No call of check_daily_loss_limit has returned yet.
NotChecked == [checked_on |-> 0, ok |-> TRUE]

\* ------------------------------------------------------------------ actions
Init ==
    /\ strategies = <<>>
    /\ signals = <<>>
    /\ trades = <<>>
    /\ paper_trading = TRUE
    /\ req = <<>>
    /\ exec = <<>>
    /\ broker_configs = <<>>
    /\ today = 1
    /\ last_mode = "no_request"
    /\ daily_loss_ok = NotChecked

create_strategy(bodies) ==
    /\ Len(strategies) < MaxStrategies
    /\ \E data \in bodies :
         strategies' = Append(strategies,
             [id |-> Len(strategies) + 1, symbol |-> data.symbol,
              signal_source |-> data.signal_source,
              position_size_type |-> data.position_size_type,
              position_size |-> data.position_size, is_active |-> TRUE])
    /\ UNCHANGED <<signals, trades, paper_trading, req, exec,
                 broker_configs, today, last_mode, daily_loss_ok>>

\* process_*_signal up to the loop: the fields are read with .get() and the
\* matching strategies are fetched.
Receive(source, signal_data) ==
    /\ Len(req) < MaxEvents
    /\ LET found == _get_matching_strategies(signal_data.symbol, source)
       IN req' = Append(req,
             [source |-> source, payload |-> signal_data, strategies |-> found,
              idx |-> IF found = <<>> THEN 0 ELSE 1,
              pc |-> IF found = <<>> THEN "done" ELSE "exec",
              signal_id |-> 0, quantity |-> 0, raised |-> FALSE,
              response |-> "received"])
    /\ UNCHANGED <<strategies, signals, trades, paper_trading, exec,
                 broker_configs, today, last_mode, daily_loss_ok>>

chartink_webhook(bodies) ==
    \E signal_data \in bodies : Receive("chartink", signal_data)

tradingview_webhook(bodies) ==
    \E signal_data \in bodies : Receive("tradingview", signal_data)

\* _execute_strategy up to the commit of the signal row.  An exception leaves
\* the loop for the except clause of process_*_signal, which prints it.
_execute_strategy(e) ==
    /\ req[e].pc = "exec"
    /\ LET r == req[e]
           strategy == r.strategies[r.idx]
           signal_type == r.payload.signal_type
           price == r.payload.price
       IN IF SizingRaises(strategy, price) \/ InsertRaises(signal_type)
          THEN /\ req' = [req EXCEPT ![e].pc = "done", ![e].raised = TRUE]
               /\ UNCHANGED <<signals, exec>>
          ELSE LET quantity == ComputeQuantity(strategy, price)
                   row == SignalRow(Len(signals) + 1, strategy, signal_type,
                                    price, quantity)
               IN /\ signals' = Append(signals, row)
                  /\ exec' = Append(exec,
                        [event |-> e, execFlag |-> "none", outcome |-> "none",
                         adapter |-> "not_called"])
                  /\ req' = [req EXCEPT ![e].pc = "dispatch",
                                        ![e].signal_id = LastRowId(signals'),
                                        ![e].quantity = quantity]
    /\ UNCHANGED <<strategies, trades, paper_trading,
                 broker_configs, today, last_mode, daily_loss_ok>>

\* The read of self.paper_trading that chooses the paper or the live path.
Dispatch(e) ==
    /\ req[e].pc = "dispatch"
    /\ req' = [req EXCEPT ![e].pc = IF ReadPaperTrading THEN "paper" ELSE "live"]
    /\ exec' = [exec EXCEPT ![req[e].signal_id].execFlag =
                                IF paper_trading THEN "paper" ELSE "live"]
    /\ UNCHANGED <<strategies, signals, trades, paper_trading,
                 broker_configs, today, last_mode, daily_loss_ok>>

_execute_paper_trade(e) ==
    /\ req[e].pc = "paper"
    /\ LET r == req[e]
       IN /\ trades' = Append(trades,
                PaperTradeRow(Len(trades) + 1, r.signal_id, r.strategies[r.idx],
                              r.payload.signal_type, r.quantity, r.payload.price))
          /\ exec' = [exec EXCEPT ![r.signal_id].outcome = "paper_filled"]
          /\ req' = [req EXCEPT ![e] = Advance(r)]
    /\ UNCHANGED <<strategies, signals, paper_trading,
                 broker_configs, today, last_mode, daily_loss_ok>>

\* The body of _execute_live_trade is `pass`.
_execute_live_trade(e) ==
    /\ req[e].pc = "live"
    /\ exec' = [exec EXCEPT ![req[e].signal_id].outcome = "live_returned"]
    /\ req' = [req EXCEPT ![e] = Advance(req[e])]
    /\ UNCHANGED <<strategies, signals, trades, paper_trading,
                 broker_configs, today, last_mode, daily_loss_ok>>

\* As ModeIsPaper, comparing without regard to case.
ModeIsPaperAnyCase(mode) == mode \in {"paper", "Paper"}

\* mode == 'paper'
ModeIsPaper(mode) == mode = "paper"

toggle_trading_mode ==
    /\ \E mode \in Modes : /\ paper_trading' = ModeIsPaper(mode)
                           /\ last_mode' = mode
    /\ UNCHANGED <<strategies, signals, trades, req, exec,
                 broker_configs, today, daily_loss_ok>>

\* RiskManager.check_daily_loss_limit is called on the ledger as it stands.
call_check_daily_loss_limit ==
    /\ daily_loss_ok' = [checked_on |-> today,
                         ok |-> check_daily_loss_limit(trades)]
    /\ UNCHANGED <<strategies, signals, trades, paper_trading, req, exec,
                   broker_configs, today, last_mode>>

\* Midnight passes: datetime.now() and CURRENT_TIMESTAMP give the next date.
NextDay ==
    /\ today < MaxDay
    /\ today' = today + 1
    /\ UNCHANGED <<strategies, signals, trades, paper_trading, req, exec,
                   broker_configs, last_mode, daily_loss_ok>>

\* INSERT OR REPLACE replaces a row only on a PRIMARY KEY or UNIQUE conflict:
\* the table's only key is the AUTOINCREMENT id, which the statement does not
\* supply, so every request inserts a row with the next id.
configure_broker(bodies) ==
    /\ Len(broker_configs) < MaxConfigs
    /\ \E data \in bodies :
         broker_configs' = Append(broker_configs,
             [id |-> Len(broker_configs) + 1, broker_name |-> data.broker_name,
              api_key |-> data.api_key, api_secret |-> data.api_secret,
              access_token |-> NONE, is_active |-> FALSE])
    /\ UNCHANGED <<strategies, signals, trades, paper_trading, req, exec,
                   today, last_mode, daily_loss_ok>>

\* The steps of the requests in progress, and the mode toggle.
Run ==
    \/ \E e \in 1..Len(req) : _execute_strategy(e)
    \/ \E e \in 1..Len(req) : Dispatch(e)
    \/ \E e \in 1..Len(req) : _execute_paper_trade(e)
    \/ \E e \in 1..Len(req) : _execute_live_trade(e)
    \/ toggle_trading_mode

Next ==
    \/ create_strategy(StrategyInputs)
    \/ chartink_webhook(ChartinkPayloads)
    \/ tradingview_webhook(TradingviewPayloads)
    \/ Run

Spec == Init /\ [][Next]_vars

\* ------------------------------------------------- the program, sizing inputs
\* Request bodies of /api/create_strategy with a cash amount and a share count.
SizingStrategyInputs ==
    { [symbol |-> "INFY", signal_source |-> "chartink",
       position_size_type |-> "amount", position_size |-> 10000],
      [symbol |-> "INFY", signal_source |-> "chartink",
       position_size_type |-> "quantity", position_size |-> 100] }

\* Request bodies posted to /api/webhook/chartink, at prices that divide the
\* amount exactly and inexactly.
SizingPayloads ==
    { Payload("INFY", "BUY", NONE, Num(250), "t"),
      Payload("INFY", "SELL", NONE, Num(7), "t"),
      Payload("INFY", "BUY", NONE, Num(20000), "t") }

NextSizing ==
    \/ create_strategy(SizingStrategyInputs)
    \/ chartink_webhook(SizingPayloads)
    \/ Run

SpecSizing == Init /\ [][NextSizing]_vars

\* ------------------------------------------------ broker configuration only
\* Request bodies of /api/broker_config; 'access_token' and 'is_active' are
\* left out, so .get() gives None and False.
BrokerInputs ==
    { [broker_name |-> n, api_key |-> k, api_secret |-> "s"] :
          n \in {"angelone", "zerodha"}, k \in {"k1", "k2", "k3"} }

NextBroker == configure_broker(BrokerInputs)

SpecBroker == Init /\ [][NextBroker]_vars

\* ------------------------------------------- check_daily_loss_limit, ledgers
\* Rows of the trades table, before their id: written today (day 1) or the day
\* before, by the paper or the live path, filled or not.
LedgerRow(side, quantity, price, status, trading_mode, timestamp) ==
    [id |-> 0, signal_id |-> 1, broker |-> trading_mode, order_id |-> NONE,
     symbol |-> "INFY", side |-> side, quantity |-> quantity,
     price |-> Num(price), status |-> status, trading_mode |-> trading_mode,
     timestamp |-> timestamp]

LedgerRows ==
    { LedgerRow("BUY", 100, 100, "filled", "live", 1),
      LedgerRow("SELL", 1, 1, "filled", "live", 1),
      LedgerRow("SELL", 50, 100, "filled", "live", 1),
      LedgerRow("BUY", 100, 100, "filled", "paper", 1),
      LedgerRow("BUY", 100, 100, "rejected", "live", 1),
      LedgerRow("BUY", 100, 100, "filled", "live", 0) }

\* The trades table holds any ledger of at most MaxLedger rows.
InitDailyLoss ==
    /\ strategies = <<>>
    /\ signals = <<>>
    /\ \E n \in 0..MaxLedger :
          \E rows \in [1..n -> LedgerRows] :
              trades = [i \in 1..n |-> [rows[i] EXCEPT !.id = i]]
    /\ paper_trading = TRUE
    /\ req = <<>>
    /\ exec = <<>>
    /\ broker_configs = <<>>
    /\ today = 1
    /\ last_mode = "no_request"
    /\ daily_loss_ok = NotChecked

NextDailyLoss ==
    \/ call_check_daily_loss_limit
    \/ NextDay

SpecDailyLoss == InitDailyLoss /\ [][NextDailyLoss]_vars

\* -------------------------------------------- the program, tradingview inputs
\* Request bodies of /api/create_strategy for the tradingview source.
TradingviewStrategyInputs ==
    { [symbol |-> "INFY", signal_source |-> "tradingview",
       position_size_type |-> "quantity", position_size |-> 100],
      [symbol |-> "INFY", signal_source |-> "tradingview",
       position_size_type |-> "amount", position_size |-> 10000] }

\* Request bodies posted to /api/webhook/tradingview: {symbol, action, price},
\* and the same with a 'signal_type' key beside 'action'.
ActionPayloads ==
    { Payload("INFY", NONE, "buy", Num(100), NONE),
      Payload("INFY", NONE, "SELL", Num(100), NONE),
      Payload("INFY", "buy", "buy", Num(100), NONE),
      Payload("INFY", "SELL", "SELL", Num(100), NONE) }

NextTradingview ==
    \/ create_strategy(TradingviewStrategyInputs)
    \/ tradingview_webhook(ActionPayloads)
    \/ Run

SpecTradingview == Init /\ [][NextTradingview]_vars

\* ----------------------------------------------------------------- helpers
\* The trade rows that reference signal row i.
TradesOf(i) == {j \in 1..Len(trades) : trades[j].signal_id = i}

\* Signal row i was inserted by a request that is still executing it.
InFlight(i) ==
    \E e \in 1..Len(req) :
        req[e].signal_id = i /\ req[e].pc \in {"dispatch", "paper", "live"}

\* The signal rows request e inserted for strategy row s.
SignalsFor(e, s) ==
    {i \in 1..Len(signals) : exec[i].event = e /\ signals[i].strategy_id = s.id}

\* ------------------------------------------------------------------ claims

\* C1: a trade is recorded only if the position-size, daily-loss and symbol
\* checks all passed for its quantity, price and symbol before execution.
\* Stated for the trades whose price is a number, where each check has a result.
C1_TradeOnlyIfRiskChecksPassed ==
    \A j \in 1..Len(trades) :
        IsNum(trades[j].price) =>
            /\ validate_position_size(trades[j].symbol, trades[j].quantity,
                                      trades[j].price.v)
            /\ check_daily_loss_limit(SubSeq(trades, 1, j - 1))
            /\ check_symbol_allowed(trades[j].symbol)

\* The trade a live execution of request e would add to the ledger once filled.
WouldBeLiveTrade(e) ==
    [id |-> Len(trades) + 1, signal_id |-> req[e].signal_id, broker |-> "live",
     order_id |-> NONE, symbol |-> req[e].strategies[req[e].idx].symbol,
     side |-> req[e].payload.signal_type, quantity |-> req[e].quantity,
     price |-> req[e].payload.price, status |-> "filled", trading_mode |-> "live",
     timestamp |-> today]

\* The daily-loss limit holds now and is used up by the trade of either one of
\* the two live executions: only one of them can still satisfy it.
OnlyOneCanSatisfy(e1, e2) ==
    /\ IsNum(req[e1].payload.price) /\ IsNum(req[e2].payload.price)
    /\ check_daily_loss_limit(trades)
    /\ ~check_daily_loss_limit(Append(trades, WouldBeLiveTrade(e1)))
    /\ ~check_daily_loss_limit(Append(trades, WouldBeLiveTrade(e2)))

\* C2: two concurrent live executions against a daily-loss limit only one of
\* them can still satisfy are never both accepted for live execution.
C2_NeverBothAccepted ==
    \A e1, e2 \in 1..Len(req) :
        (e1 # e2 /\ req[e1].pc = "live" /\ req[e2].pc = "live")
            => ~OnlyOneCanSatisfy(e1, e2)

\* C3: a payload that fails the validation of its source leaves no signal row
\* and no trade row.
C3_InvalidPayloadNoSideEffects ==
    \A e \in 1..Len(req) :
        ~SignalValid(req[e].source, req[e].payload) =>
            /\ \A i \in 1..Len(signals) : exec[i].event # e
            /\ \A j \in 1..Len(trades) : exec[trades[j].signal_id].event # e

\* C4: the flag is read at each strategy's execution, the path taken is the one
\* of the value read, and the trading_mode of every trade row is that value.
C4_TradingModeIsFlagAtExecution ==
    /\ \A j \in 1..Len(trades) :
          trades[j].trading_mode = exec[trades[j].signal_id].execFlag
    /\ \A e \in 1..Len(req) :
          req[e].pc \in {"paper", "live"} =>
              req[e].pc = exec[req[e].signal_id].execFlag

\* One request executed a strategy on the live path and then, the flag having
\* been toggled while the request ran, a later strategy on the paper path.
C4_Witness ==
    \E i, k \in 1..Len(signals) :
        /\ i < k /\ exec[i].event = exec[k].event
        /\ exec[i].execFlag = "live" /\ exec[k].execFlag = "paper"
        /\ \E j \in TradesOf(k) : trades[j].trading_mode = "paper"

\* C5: an execution that read the flag as paper records exactly one trade for
\* its signal: broker 'paper', status 'filled', trading_mode 'paper', the
\* signal's symbol, side, quantity and price, and no broker adapter call.
C5_PaperExecutionRecordsOneFilledTrade ==
    \A i \in 1..Len(signals) :
        /\ Cardinality(TradesOf(i)) <= 1
        /\ (exec[i].execFlag = "paper" /\ ~InFlight(i)) =>
              /\ Cardinality(TradesOf(i)) = 1
              /\ exec[i].adapter = "not_called"
              /\ \A j \in TradesOf(i) :
                    /\ trades[j].broker = "paper"
                    /\ trades[j].status = "filled"
                    /\ trades[j].trading_mode = "paper"
                    /\ trades[j].symbol = signals[i].symbol
                    /\ trades[j].side = signals[i].signal_type
                    /\ trades[j].quantity = signals[i].quantity
                    /\ trades[j].price = signals[i].price

C5_Witness ==
    \E i \in 1..Len(signals) :
        exec[i].execFlag = "paper" /\ ~InFlight(i) /\ TradesOf(i) # {}

\* C6: a finished live execution either placed the order with the adapter and
\* recorded the trade with the returned order id and status, or the adapter
\* failed, no trade was recorded, the signal is pending and the caller was
\* given an execution error.
C6_LiveTradeIffAdapterSucceeded ==
    \A i \in 1..Len(signals) :
        (exec[i].execFlag = "live" /\ ~InFlight(i)) =>
            \/ /\ exec[i].adapter = "succeeded"
               /\ Cardinality(TradesOf(i)) = 1
               /\ \A j \in TradesOf(i) :
                     trades[j].order_id # NONE /\ trades[j].trading_mode = "live"
            \/ /\ exec[i].adapter = "failed"
               /\ TradesOf(i) = {}
               /\ signals[i].status = "pending"
               /\ req[exec[i].event].response = "execution_error"

\* C7: every trade row's signal_id is the id of exactly one signal row, and
\* that row was committed before the trade row was written (rows are only
\* ever appended).
C7_TradeReferencesCommittedSignal ==
    /\ [](\A j \in 1..Len(trades) :
            Cardinality({i \in 1..Len(signals) :
                            signals[i].id = trades[j].signal_id}) = 1)
    /\ [][/\ Len(signals') >= Len(signals)
          /\ SubSeq(signals', 1, Len(signals)) = signals
          /\ \A j \in (Len(trades) + 1)..Len(trades') :
                \E i \in 1..Len(signals) : signals[i].id = trades'[j].signal_id
         ]_vars

\* A trade row whose signal is not the row of the same number: other
\* executions wrote signal rows in between.
C7_Witness ==
    \E j \in 1..Len(trades) : trades[j].signal_id # trades[j].id

\* C8: a request that has been answered created exactly one signal row for
\* every strategy it matched.  Stated for the payloads the validator of the
\* source accepts.
C8_OneSignalPerMatch ==
    \A e \in 1..Len(req) :
        (req[e].pc = "done" /\ SignalValid(req[e].source, req[e].payload)) =>
            \A k \in 1..Len(req[e].strategies) :
                Cardinality(SignalsFor(e, req[e].strategies[k])) = 1

\* C9: a request that has been answered recorded the signal of every matched
\* strategy whose own processing does not fail, whatever happened to the
\* strategies before it.
C9_FailureDoesNotStopLaterStrategies ==
    \A e \in 1..Len(req) :
        (req[e].pc = "done" /\ SignalValid(req[e].source, req[e].payload)) =>
            \A k \in 1..Len(req[e].strategies) :
                (/\ ~SizingRaises(req[e].strategies[k], req[e].payload.price)
                 /\ ~InsertRaises(req[e].payload.signal_type))
                    => SignalsFor(e, req[e].strategies[k]) # {}

\* C10: every signal row and every trade row has quantity > 0 and price > 0.
C10_QuantityAndPricePositive ==
    /\ \A i \in 1..Len(signals) :
          /\ signals[i].quantity > 0
          /\ IsNum(signals[i].price) /\ signals[i].price.v > 0
    /\ \A j \in 1..Len(trades) :
          /\ trades[j].quantity > 0
          /\ IsNum(trades[j].price) /\ trades[j].price.v > 0

\* C11: a request whose price is zero or negative fails with a sizing error,
\* whatever the sizing type of the strategy, and records no signal row and no
\* trade row.
C11_NonPositivePriceRecordsNothing ==
    \A e \in 1..Len(req) :
        (IsNum(req[e].payload.price) /\ req[e].payload.price.v <= 0) =>
            /\ \A i \in 1..Len(signals) : exec[i].event # e
            /\ \A j \in 1..Len(trades) : exec[trades[j].signal_id].event # e
            /\ (req[e].pc = "done" /\ req[e].strategies # <<>>) => req[e].raised

C13_ChartinkAcceptsIffWellFormed ==
    \A e \in 1..Len(req) :
        LET data == req[e].payload
        IN req[e].source = "chartink" =>
             (validate_chartink_signal(data) <=>
                 /\ data.symbol # NONE /\ data.signal_type # NONE
                 /\ data.price # NoPrice /\ data.timestamp # NONE
                 /\ data.signal_type \in {"BUY", "SELL"}
                 /\ IsNum(data.price) /\ data.price.v > 0
                 /\ SymbolPatternMatches(data.symbol))

\* str.upper() of an action the tradingview validator accepts.
C14_Upper(action) ==
    CASE action \in {"buy", "BUY"} -> "BUY"
      [] action \in {"sell", "SELL"} -> "SELL"
      [] OTHER -> action

\* C14: for a tradingview payload with symbol, action and price, the action
\* in {BUY, SELL, buy, sell}, every signal row and every trade row recorded
\* for the request has the uppercased action as its side.
C14_SideIsUppercasedAction ==
    \A i \in 1..Len(signals) :
        LET data == req[exec[i].event].payload
        IN (req[exec[i].event].source = "tradingview"
              /\ validate_tradingview_signal(data)) =>
             /\ signals[i].signal_type = C14_Upper(data.action)
             /\ \A j \in TradesOf(i) : trades[j].side = C14_Upper(data.action)

\* The trades of the given day with trading_mode 'live' and status 'filled'.
C15_Counted(day) ==
    {j \in 1..Len(trades) : /\ trades[j].timestamp = day
                            /\ trades[j].trading_mode = "live"
                            /\ trades[j].status = "filled"}

RECURSIVE C15_Sum(_)
C15_Sum(S) ==
    IF S = {} THEN 0
    ELSE LET j == CHOOSE x \in S : TRUE
         IN (IF trades[j].side = "SELL" THEN 1 ELSE -1)
                * trades[j].price.v * trades[j].quantity
            + C15_Sum(S \ {j})

\* The ledger without its row k.
C15_Without(k) ==
    [i \in 1..(Len(trades) - 1) |-> IF i < k THEN trades[i] ELSE trades[i + 1]]

C16_StatusOnlyLeavesPending ==
    /\ [](\A i \in 1..Len(signals) :
             signals[i].status \in {"pending", "filled", "rejected"})
    /\ [][\A i \in 1..Len(signals') :
             IF i <= Len(signals)
             THEN \/ signals'[i].status = signals[i].status
                  \/ /\ signals[i].status = "pending"
                     /\ signals'[i].status \in {"filled", "rejected"}
             ELSE signals'[i].status = "pending"]_vars

\* Two signals have been executed to the end, one by the paper path and one by
\* the live path, and a third is still in flight.
C16_Witness ==
    \E i, j, k \in 1..Len(signals) :
        /\ exec[i].outcome = "paper_filled" /\ TradesOf(i) # {}
        /\ exec[j].outcome = "live_returned"
        /\ InFlight(k)
        /\ signals[i].status = "pending"
        /\ signals[j].status = "pending"
        /\ signals[k].status = "pending"

\* C17: after any sequence of configure requests broker_configs holds at most
\* one row per broker_name, and that row has the credentials of the latest
\* request for the name.  Every request appends its row, so the latest request
\* for a name is the last row with that name.
C17_OneRowPerBrokerName ==
    \A i, j \in 1..Len(broker_configs) :
        broker_configs[i].broker_name = broker_configs[j].broker_name => i = j

\* C18: the flag starts as paper; after a toggle request it is paper exactly
\* when the request's mode is 'paper', and live for every other value ('live',
\* a missing mode, another spelling or case); an execution that reads the flag
\* takes the live path exactly when the latest toggle request had a mode other
\* than 'paper'.
C18_PaperOnlyOnExactPaper ==
    /\ [](IF last_mode = "no_request" THEN paper_trading
          ELSE paper_trading <=> (last_mode = "paper"))
    /\ [][\A e \in 1..Len(req) :
             (req[e].pc = "dispatch" /\ req'[e].pc # "dispatch") =>
                 (req'[e].pc = "live" <=> last_mode \in Modes \ {"paper"})]_vars

\* The latest toggle request said 'Paper', and an execution that read the flag
\* afterwards is on the live path.
C18_Witness ==
    /\ last_mode = "Paper"
    /\ ~paper_trading
    /\ \E e \in 1..Len(req) :
           req[e].pc = "live" /\ exec[req[e].signal_id].execFlag = "live"

====
